---------------------------- MODULE Spec2Model ----------------------------
(***************************************************************************)
(* A model of the Swiss map of src/vendor/github.com/crn4/swiss/map.go:    *)
(* groups of eight slots, one 64-bit control word per group, linear        *)
(* probing over groups, tombstones and the load-triggered rehash.          *)
(*                                                                         *)
(* A 64-bit word is a tuple of eight bytes, least significant byte first   *)
(* (control byte i of the source is element i + 1); every word operation   *)
(* of the source (xor, and-not, shift, subtraction with borrow) is done on *)
(* the whole word, carries and borrows crossing the byte lanes.            *)
(***************************************************************************)
EXTENDS Integers, Sequences, FiniteSets, TLC

(***************************************************************************)
(* Bounds of the model.                                                    *)
(***************************************************************************)
\* keys are 0 .. NKeys - 1
NKeys == 14
\* values written by PutOp are 0 .. MaxVal
MaxVal == 1
\* number of Put / Delete / Clear calls after the load phase
MaxOps == 3
\* size hints given to New are 0 .. MaxHint
MaxHint == 1
\* seeds drawn by New are 0 .. MaxSeed
MaxSeed == 1
\* size hints given to New in the specification SpecHint are 0 .. MaxSize
MaxSize == 14
\* number of Put / Delete / Clear calls after the load phase in the
\* specification SpecChurn
MaxChurn == 16

\* the tags stored in the control word of the specification SpecGroup are
\* 0 .. MaxTag and 127
MaxTag == 2
\* number of control.set calls on that control word
MaxSets == 3

Keys == 0 .. (NKeys - 1)
Values == 0 .. MaxVal
Hints == 0 .. MaxHint
Seeds == 0 .. MaxSeed
Sizes == 0 .. MaxSize

(***************************************************************************)
(* Constants of map.go.                                                    *)
(***************************************************************************)
kEmpty == 128
kDeleted == 254
kSentinel == 255
grpssz == 8
grpload == 7

Lanes == 0 .. (grpssz - 1)

kMsbsBytes == << 128, 128, 128, 128, 128, 128, 128, 128 >>
kLsbsBytes == << 1, 1, 1, 1, 1, 1, 1, 1 >>
emptyContol == kMsbsBytes
ZeroWord == << 0, 0, 0, 0, 0, 0, 0, 0 >>
OneWord == << 1, 0, 0, 0, 0, 0, 0, 0 >>

(***************************************************************************)
(* Bit operations on bytes, tabulated once.                                *)
(***************************************************************************)
RECURSIVE BitAnd(_, _)
BitAnd(a, b) ==
    IF a = 0 \/ b = 0 THEN 0
    ELSE (IF a % 2 = 1 /\ b % 2 = 1 THEN 1 ELSE 0) + 2 * BitAnd(a \div 2, b \div 2)

RECURSIVE BitXor(_, _)
BitXor(a, b) ==
    IF a = 0 /\ b = 0 THEN 0
    ELSE (((a % 2) + (b % 2)) % 2) + 2 * BitXor(a \div 2, b \div 2)

\* the tables hold the result for bytes a and b at [a + 1][b + 1]
AndTab == [a \in 1..256 |-> [b \in 1..256 |-> BitAnd(a - 1, b - 1)]]
XorTab == [a \in 1..256 |-> [b \in 1..256 |-> BitXor(a - 1, b - 1)]]

And8(a, b) == AndTab[a + 1][b + 1]
Xor8(a, b) == XorTab[a + 1][b + 1]
Not8(a) == 255 - a

RECURSIVE Tz8(_)
\* trailing zeros of a nonzero byte
Tz8(a) == IF a % 2 = 1 THEN 0 ELSE 1 + Tz8(a \div 2)

(***************************************************************************)
(* Operations on 64-bit words.                                             *)
(***************************************************************************)
WAnd(a, b) ==
    << And8(a[1], b[1]),
       And8(a[2], b[2]),
       And8(a[3], b[3]),
       And8(a[4], b[4]),
       And8(a[5], b[5]),
       And8(a[6], b[6]),
       And8(a[7], b[7]),
       And8(a[8], b[8]) >>

WAndNot(a, b) ==
    << And8(a[1], Not8(b[1])),
       And8(a[2], Not8(b[2])),
       And8(a[3], Not8(b[3])),
       And8(a[4], Not8(b[4])),
       And8(a[5], Not8(b[5])),
       And8(a[6], Not8(b[6])),
       And8(a[7], Not8(b[7])),
       And8(a[8], Not8(b[8])) >>

WXor(a, b) ==
    << Xor8(a[1], b[1]),
       Xor8(a[2], b[2]),
       Xor8(a[3], b[3]),
       Xor8(a[4], b[4]),
       Xor8(a[5], b[5]),
       Xor8(a[6], b[6]),
       Xor8(a[7], b[7]),
       Xor8(a[8], b[8]) >>

\* the byte of a << s at lane i, 0 < s < 8: hi is byte i - 1 of a (0 for
\* the lowest lane), whose high bits enter from below
Shl8(lo, hi, s) == ((lo * (2 ^ s)) % 256) + (hi \div (2 ^ (8 - s)))

WShl(a, s) ==
    << Shl8(a[1], 0, s),
       Shl8(a[2], a[1], s),
       Shl8(a[3], a[2], s),
       Shl8(a[4], a[3], s),
       Shl8(a[5], a[4], s),
       Shl8(a[6], a[5], s),
       Shl8(a[7], a[6], s),
       Shl8(a[8], a[7], s) >>

\* a - b (mod 2^64): the borrow out of byte i enters byte i + 1
WSub(a, b) ==
    LET b2 == IF a[1] - b[1] < 0 THEN 1 ELSE 0
        b3 == IF a[2] - b[2] - b2 < 0 THEN 1 ELSE 0
        b4 == IF a[3] - b[3] - b3 < 0 THEN 1 ELSE 0
        b5 == IF a[4] - b[4] - b4 < 0 THEN 1 ELSE 0
        b6 == IF a[5] - b[5] - b5 < 0 THEN 1 ELSE 0
        b7 == IF a[6] - b[6] - b6 < 0 THEN 1 ELSE 0
        b8 == IF a[7] - b[7] - b7 < 0 THEN 1 ELSE 0
    IN  << (a[1] - b[1] + 256) % 256,
           (a[2] - b[2] - b2 + 256) % 256,
           (a[3] - b[3] - b3 + 256) % 256,
           (a[4] - b[4] - b4 + 256) % 256,
           (a[5] - b[5] - b5 + 256) % 256,
           (a[6] - b[6] - b6 + 256) % 256,
           (a[7] - b[7] - b7 + 256) % 256,
           (a[8] - b[8] - b8 + 256) % 256 >>

\* a * n (mod 2^64) for 0 <= n < 256
WMul(a, n) ==
    LET p1 == a[1] * n
        p2 == a[2] * n + (p1 \div 256)
        p3 == a[3] * n + (p2 \div 256)
        p4 == a[4] * n + (p3 \div 256)
        p5 == a[5] * n + (p4 \div 256)
        p6 == a[6] * n + (p5 \div 256)
        p7 == a[7] * n + (p6 \div 256)
        p8 == a[8] * n + (p7 \div 256)
    IN  << p1 % 256, p2 % 256, p3 % 256, p4 % 256,
           p5 % 256, p6 % 256, p7 % 256, p8 % 256 >>

RECURSIVE LowByte(_, _)
\* index (1..8) of the lowest nonzero byte of word a at or after i, 9 if none
LowByte(a, i) == IF i > 8 THEN 9 ELSE IF a[i] # 0 THEN i ELSE LowByte(a, i + 1)

\* bits.TrailingZeros64
TrailingZeros64(a) ==
    LET i == LowByte(a, 1)
    IN  IF i > 8 THEN 64 ELSE 8 * (i - 1) + Tz8(a[i])

(***************************************************************************)
(* bitmask and control                                                     *)
(***************************************************************************)
first(b) == TrailingZeros64(b) \div 8

rmfirst(b) == WAnd(b, WSub(b, OneWord))

\* control.set: store one byte
set(c, i, value) == [c EXCEPT ![i + 1] = value]

\* match without the and-not of x: a lane whose byte differs from the tag in
\* the high bit is reported too
matchUnmasked(g, h2v) ==
    LET x == WXor(g.cntrl, WMul(kLsbsBytes, h2v))
    IN  WAnd(WSub(x, kLsbsBytes), kMsbsBytes)

match(g, h2v) ==
    LET x == WXor(g.cntrl, WMul(kLsbsBytes, h2v))
    IN  WAnd(WAndNot(WSub(x, kLsbsBytes), x), kMsbsBytes)

\* maskEmpty with the shift of maskEmptyOrDeleted: it marks DELETED too
maskEmptyShiftSeven(g) ==
    WAnd(WAndNot(g.cntrl, WShl(g.cntrl, 7)), kMsbsBytes)

maskEmpty(g) == WAnd(WAndNot(g.cntrl, WShl(g.cntrl, 6)), kMsbsBytes)

\* maskFull without the flip of the high bits (it marks the lanes that are
\* not full)
maskFullUnflipped(g) == WAnd(g.cntrl, kMsbsBytes)

maskFull(g) == WAnd(WXor(g.cntrl, kMsbsBytes), kMsbsBytes)

maskNonFull(g) == WAnd(g.cntrl, kMsbsBytes)

maskEmptyOrDeleted(g) == WAnd(WAndNot(g.cntrl, WShl(g.cntrl, 7)), kMsbsBytes)


RECURSIVE lanesOf(_)
\* the lanes a caller visits in a bitmask: first, then rmfirst, until the
\* mask is zero
lanesOf(b) ==
    IF b = ZeroWord THEN {} ELSE {first(b)} \cup lanesOf(rmfirst(b))

(***************************************************************************)
(* Hashing.  hash.GetHashFunc hands out the Go runtime's hasher, which is  *)
(* not part of the repository; all the map relies on is that it is a       *)
(* function of the key and the seed.  The seed selects one of a family of  *)
(* hash functions: an even seed spreads the keys over the home groups, an  *)
(* odd seed sends every key to home group 0; seed 0 gives every key a tag  *)
(* of its own (neighbouring keys get neighbouring tags), every other seed  *)
(* gives the even keys tag 4 and the odd keys tag 5, so that keys collide  *)
(* on the tag as well.                                                     *)
(***************************************************************************)
hashfn(key, seed) ==
    128 * (IF seed % 2 = 0 THEN key ELSE 0)
        + (IF seed = 0 THEN key % 128 ELSE 4 + (key % 2))

h1(hash) == hash \div 128

h2(hash) == hash % 128

\* groupsnum that rounds down and reserves no headroom
groupsnumFloor(n) ==
    LET n1 == IF n = 0 THEN 10 ELSE n
    IN  IF n1 < grpload THEN 1 ELSE n1 \div grpload

groupsnum(n) ==
    LET n1 == IF n = 0 THEN 10 ELSE n
    IN  (n1 + grpload + 1) \div grpload

newsize(oldsize, tombstones) ==
    IF tombstones >= oldsize \div 2 THEN oldsize ELSE oldsize * 2

(***************************************************************************)
(* The map.  A map value is a record of the fields of Map; hung is the     *)
(* position of the caller: TRUE when a probe loop came back to the group   *)
(* it started from with nothing changed, which the source repeats for ever.*)
(***************************************************************************)
ZeroSlot == [key |-> 0, value |-> 0]

EmptyGroup == [cntrl |-> emptyContol, slts |-> [i \in 1..grpssz |-> ZeroSlot]]

\* New that takes all grpssz slots of a group for the capacity
NewCapEight(size, seed) ==
    LET ngroups == groupsnum(size)
    IN  [grps |-> [g \in 1..ngroups |-> EmptyGroup],
         ngroups |-> ngroups,
         seed |-> seed,
         cap |-> grpssz * ngroups,
         len |-> 0,
         tombstones |-> 0,
         hung |-> FALSE]

New(size, seed) ==
    LET ngroups == groupsnum(size)
    IN  [grps |-> [g \in 1..ngroups |-> EmptyGroup],
         ngroups |-> ngroups,
         seed |-> seed,
         cap |-> grpload * ngroups,
         len |-> 0,
         tombstones |-> 0,
         hung |-> FALSE]

RECURSIVE matchKey(_, _, _)
\* the inner loop of Put, Get and Delete: the first lane of mask equal whose
\* slot holds key, grpssz when there is none
matchKey(group, equal, key) ==
    IF equal = ZeroWord THEN grpssz
    ELSE LET i == first(equal)
         IN  IF key = group.slts[i + 1].key THEN i
             ELSE matchKey(group, rmfirst(equal), key)

\* ngrp++; if ngrp >= m.ngroups { ngrp = 0 }
nextGroup(m, ngrp) == IF ngrp + 1 >= m.ngroups THEN 0 ELSE ngrp + 1

RECURSIVE PutProbe(_, _, _, _, _)
\* the probe loop of Put from group ngrp on, visited groups already seen
PutProbe(m, key, tag, ngrp, visited) ==
    IF visited >= m.ngroups THEN [kind |-> "loop", g |-> ngrp, i |-> 0, visited |-> visited]
    ELSE LET group == m.grps[ngrp + 1]
             i == matchKey(group, match(group, tag), key)
             empty == maskEmptyOrDeleted(group)
         IN  IF i < grpssz
             THEN [kind |-> "hit", g |-> ngrp, i |-> i, visited |-> visited + 1]
             ELSE IF empty # ZeroWord
             THEN [kind |-> "free", g |-> ngrp, i |-> first(empty), visited |-> visited + 1]
             ELSE PutProbe(m, key, tag, nextGroup(m, ngrp), visited + 1)

RECURSIVE FindProbe(_, _, _, _, _)
\* the probe loop of Get and Delete (and find)
FindProbe(m, key, tag, ngrp, visited) ==
    IF visited >= m.ngroups THEN [kind |-> "loop", g |-> ngrp, i |-> 0, visited |-> visited]
    ELSE LET group == m.grps[ngrp + 1]
             i == matchKey(group, match(group, tag), key)
         IN  IF i < grpssz
             THEN [kind |-> "hit", g |-> ngrp, i |-> i, visited |-> visited + 1]
             ELSE IF maskEmpty(group) # ZeroWord
             THEN [kind |-> "miss", g |-> ngrp, i |-> 0, visited |-> visited + 1]
             ELSE FindProbe(m, key, tag, nextGroup(m, ngrp), visited + 1)

PutFind(m, key) ==
    LET hash == hashfn(key, m.seed)
    IN  PutProbe(m, key, h2(hash), h1(hash) % m.ngroups, 0)

find(m, key) ==
    LET hash == hashfn(key, m.seed)
    IN  FindProbe(m, key, h2(hash), h1(hash) % m.ngroups, 0)

\* the insertion of Put that takes a tombstone off the count when it reuses
\* a DELETED slot
PutInsertReclaims(m, r, key, value) ==
    [m EXCEPT !.grps[r.g + 1].slts[r.i + 1] = [key |-> key, value |-> value],
              !.grps[r.g + 1].cntrl = set(m.grps[r.g + 1].cntrl, r.i, h2(hashfn(key, m.seed))),
              !.len = m.len + 1,
              !.tombstones = IF m.grps[r.g + 1].cntrl[r.i + 1] = kDeleted
                             THEN m.tombstones - 1 ELSE m.tombstones]

\* the insertion of Put without m.len++
PutInsertUncounted(m, r, key, value) ==
    [m EXCEPT !.grps[r.g + 1].slts[r.i + 1] = [key |-> key, value |-> value],
              !.grps[r.g + 1].cntrl = set(m.grps[r.g + 1].cntrl, r.i, h2(hashfn(key, m.seed)))]

\* the slot store and control.set of Put at the free slot probe r found
PutInsert(m, r, key, value) ==
    [m EXCEPT !.grps[r.g + 1].slts[r.i + 1] = [key |-> key, value |-> value],
              !.grps[r.g + 1].cntrl = set(m.grps[r.g + 1].cntrl, r.i, h2(hashfn(key, m.seed))),
              !.len = m.len + 1]

\* the overwrite of Put, counting the pair once more
PutOverwriteCounting(m, r, value) ==
    [m EXCEPT !.grps[r.g + 1].slts[r.i + 1].value = value,
              !.len = m.len + 1]

\* group.slts[i].value = value of Put at the slot probe r found holding key
PutOverwrite(m, r, value) ==
    [m EXCEPT !.grps[r.g + 1].slts[r.i + 1].value = value]

\* the map when Put calls rehash, for a Put that does (see PutRehashes)
PutSlot(m, key, value) == PutInsert(m, PutFind(m, key), key, value)

\* whether this Put reaches the call of rehash
PutRehashes(m, key) ==
    /\ ~m.hung
    /\ m.len + 1 > m.cap
    /\ PutFind(m, key).kind = "free"

RECURSIVE fullSlots(_, _)
\* the slots the loop over maskFull visits, in its order
fullSlots(group, mask) ==
    IF mask = ZeroWord THEN << >>
    ELSE << group.slts[first(mask) + 1] >> \o fullSlots(group, rmfirst(mask))

RECURSIVE allSlots(_, _)
\* the slots the loops of All and rehash visit over groups i.., in their order
allSlots(groups, i) ==
    IF i > Len(groups) THEN << >>
    ELSE fullSlots(groups[i], maskFull(groups[i])) \o allSlots(groups, i + 1)

\* Put without the test m.len > m.cap and the call of rehash
PutNeverRehashes(m, key, value) ==
    LET r == PutFind(m, key)
    IN  IF m.hung THEN m
        ELSE IF r.kind = "loop" THEN [m EXCEPT !.hung = TRUE]
        ELSE IF r.kind = "hit" THEN PutOverwrite(m, r, value)
        ELSE PutInsert(m, r, key, value)

RECURSIVE Put(_, _, _)
RECURSIVE rehash(_)
RECURSIVE reinsert(_, _, _)

\* Put that calls rehash one pair too late (m.len > m.cap + 1)
PutLateRehash(m, key, value) ==
    LET r == PutFind(m, key)
        ins == PutInsert(m, r, key, value)
    IN  IF m.hung THEN m
        ELSE IF r.kind = "loop" THEN [m EXCEPT !.hung = TRUE]
        ELSE IF r.kind = "hit"
        THEN PutOverwrite(m, r, value)
        ELSE IF ins.len > ins.cap + 1 THEN rehash(ins)
        ELSE ins

Put(m, key, value) ==
    LET r == PutFind(m, key)
        ins == PutInsert(m, r, key, value)
    IN  IF m.hung THEN m
        ELSE IF r.kind = "loop" THEN [m EXCEPT !.hung = TRUE]
        ELSE IF r.kind = "hit"
        THEN PutOverwrite(m, r, value)
        ELSE IF ins.len > ins.cap THEN rehash(ins)
        ELSE ins

\* the loop of rehash: Put of every slot of old from position n on
reinsert(m, old, n) ==
    IF n > Len(old) THEN m
    ELSE reinsert(Put(m, old[n].key, old[n].value), old, n + 1)

\* the map rehash starts its loop with, its cap still that of the old groups
freshMapStaleCap(m) ==
    LET size == newsize(m.cap, m.tombstones)
        ngroups == groupsnum(size)
    IN  [m EXCEPT !.grps = [g \in 1..ngroups |-> EmptyGroup],
                  !.ngroups = ngroups,
                  !.cap = m.ngroups * grpload,
                  !.len = 0,
                  !.tombstones = 0]

\* the map rehash starts its loop with: fresh groups, the counts reset
freshMap(m) ==
    LET size == newsize(m.cap, m.tombstones)
        ngroups == groupsnum(size)
    IN  [m EXCEPT !.grps = [g \in 1..ngroups |-> EmptyGroup],
                  !.ngroups = ngroups,
                  !.cap = ngroups * grpload,
                  !.len = 0,
                  !.tombstones = 0]

rehash(m) == reinsert(freshMap(m), allSlots(m.grps, 1), 1)

RECURSIVE reinsertTrail(_, _, _)
\* the maps the loop of rehash goes through: m before the Put of old[n],
\* the map after it, and so on to the map rehash returns with
reinsertTrail(m, old, n) ==
    IF n > Len(old) THEN << m >>
    ELSE << m >> \o reinsertTrail(Put(m, old[n].key, old[n].value), old, n + 1)

\* the maps rehash(m) goes through, and the slots it puts into them
rehashTrail(m) == reinsertTrail(freshMap(m), allSlots(m.grps, 1), 1)

Get(m, key) ==
    LET r == find(m, key)
    IN  IF r.kind = "hit"
        THEN [value |-> m.grps[r.g + 1].slts[r.i + 1].value, ok |-> TRUE, returns |-> TRUE]
        ELSE [value |-> 0, ok |-> FALSE, returns |-> r.kind # "loop"]

\* Delete that marks the slot EMPTY whatever the group holds
DeleteAlwaysEmpty(m, key) ==
    LET r == find(m, key)
        g == r.g + 1
        zeroed == [m EXCEPT !.grps[g].slts[r.i + 1] = ZeroSlot]
    IN  IF m.hung THEN m
        ELSE IF r.kind = "loop" THEN [m EXCEPT !.hung = TRUE]
        ELSE IF r.kind = "miss" THEN m
        ELSE [zeroed EXCEPT !.grps[g].cntrl = set(m.grps[g].cntrl, r.i, kEmpty),
                            !.len = m.len - 1]

\* Delete with m.len-- also on the path that did not find the key
DeleteCountingMiss(m, key) ==
    LET r == find(m, key)
        g == r.g + 1
        zeroed == [m EXCEPT !.grps[g].slts[r.i + 1] = ZeroSlot]
    IN  IF m.hung THEN m
        ELSE IF r.kind = "loop" THEN [m EXCEPT !.hung = TRUE]
        ELSE IF r.kind = "miss" THEN [m EXCEPT !.len = m.len - 1]
        ELSE IF maskEmpty(zeroed.grps[g]) # ZeroWord
        THEN [zeroed EXCEPT !.grps[g].cntrl = set(m.grps[g].cntrl, r.i, kEmpty),
                            !.len = m.len - 1]
        ELSE [zeroed EXCEPT !.grps[g].cntrl = set(m.grps[g].cntrl, r.i, kDeleted),
                            !.tombstones = m.tombstones + 1]

Delete(m, key) ==
    LET r == find(m, key)
        g == r.g + 1
        zeroed == [m EXCEPT !.grps[g].slts[r.i + 1] = ZeroSlot]
    IN  IF m.hung THEN m
        ELSE IF r.kind = "loop" THEN [m EXCEPT !.hung = TRUE]
        ELSE IF r.kind = "miss" THEN m
        ELSE IF maskEmpty(zeroed.grps[g]) # ZeroWord
        THEN [zeroed EXCEPT !.grps[g].cntrl = set(m.grps[g].cntrl, r.i, kEmpty),
                            !.len = m.len - 1]
        ELSE [zeroed EXCEPT !.grps[g].cntrl = set(m.grps[g].cntrl, r.i, kDeleted),
                            !.tombstones = m.tombstones + 1]

\* Clear that zeroes the slots and the counts but leaves the control words
ClearSlotsOnly(m) ==
    [m EXCEPT !.len = 0,
              !.tombstones = 0,
              !.grps = [g \in 1..Len(m.grps) |->
                           [cntrl |-> m.grps[g].cntrl,
                            slts |-> [i \in 1..grpssz |-> ZeroSlot]]]]

\* Clear that goes back to the groups of New(0)
ClearShrinks(m) ==
    [m EXCEPT !.len = 0,
              !.tombstones = 0,
              !.grps = [g \in 1..groupsnum(0) |-> EmptyGroup],
              !.ngroups = groupsnum(0),
              !.cap = grpload * groupsnum(0)]

Clear(m) ==
    [m EXCEPT !.len = 0,
              !.tombstones = 0,
              !.grps = [g \in 1..Len(m.grps) |-> EmptyGroup]]

\* the group a probe for key starts from (0-based):
\* uint32(h1(hash)) % m.ngroups
home(m, key) == h1(hashfn(key, m.seed)) % m.ngroups

\* the groups (0-based) the probe loop goes through from group a before it
\* comes to group r: ngrp++, back to 0 at m.ngroups
walk(m, a, r) ==
    IF a <= r THEN a .. (r - 1) ELSE (a .. (m.ngroups - 1)) \cup (0 .. (r - 1))

\* the control bytes: a FULL byte is a tag, with the high bit clear
isFull(byte) == byte < kEmpty

fullCount(m) ==
    Cardinality({gi \in (1..m.ngroups) \X Lanes : isFull(m.grps[gi[1]].cntrl[gi[2] + 1])})

deletedCount(m) ==
    Cardinality({gi \in (1..m.ngroups) \X Lanes : m.grps[gi[1]].cntrl[gi[2] + 1] = kDeleted})

hasEmpty(group) == \E i \in Lanes : group.cntrl[i + 1] = kEmpty

mapHasEmpty(m) == \E g \in 1 .. m.ngroups : hasEmpty(m.grps[g])

MapLen(m) == m.len - m.tombstones

MapCap(m) == m.cap

\* the pairs All yields to a consumer that never stops it
All(m) == allSlots(m.grps, 1)


(***************************************************************************)
(* State: the fields of one Map, the caller's position (hung), and the     *)
(* caller's bookkeeping: size is the hint New was given, used the number   *)
(* of keys put so far (keys are first put in the order 0, 1, 2, ...), nops *)
(* the number of calls made after the load phase, last the call made last  *)
(* (found: whether Get found its key before the call; prevPut: whether the *)
(* call before it was a Put of the same key; rehashed: whether it called   *)
(* rehash), ref the key-value pairs a map holds after the calls made so    *)
(* far, pure whether every call so far was a Put of a key never put before.*)
(***************************************************************************)
VARIABLES grps, len, cap, tombstones, ngroups, seed, hung,
          size, used, nops, last, ref, pure

fields == << grps, len, cap, tombstones, ngroups, seed, hung >>

vars == << grps, len, cap, tombstones, ngroups, seed, hung,
           size, used, nops, last, ref, pure >>

Self ==
    [grps |-> grps, ngroups |-> ngroups, seed |-> seed, cap |-> cap,
     len |-> len, tombstones |-> tombstones, hung |-> hung]

\* the map after the step
Self1 ==
    [grps |-> grps', ngroups |-> ngroups', seed |-> seed', cap |-> cap',
     len |-> len', tombstones |-> tombstones', hung |-> hung']

Becomes(m) ==
    /\ grps' = m.grps
    /\ len' = m.len
    /\ cap' = m.cap
    /\ tombstones' = m.tombstones
    /\ ngroups' = m.ngroups
    /\ seed' = m.seed
    /\ hung' = m.hung

NoRef == [k \in {} |-> 0]

RefPut(r, key, value) ==
    [k \in (DOMAIN r) \cup {key} |-> IF k = key THEN value ELSE r[k]]

RefDelete(r, key) == [k \in (DOMAIN r) \ {key} |-> r[k]]

\* the state after New(size) for a size among hints
InitFrom(hints) ==
    /\ size \in hints
    /\ \E sd \in Seeds :
          /\ grps = New(size, sd).grps
          /\ len = New(size, sd).len
          /\ cap = New(size, sd).cap
          /\ tombstones = New(size, sd).tombstones
          /\ ngroups = New(size, sd).ngroups
          /\ seed = New(size, sd).seed
          /\ hung = New(size, sd).hung
    /\ used = 0
    /\ nops = 0
    /\ last = [op |-> "New", key |-> 0, value |-> 0, found |-> FALSE,
               prevPut |-> FALSE, rehashed |-> FALSE]
    /\ ref = NoRef
    /\ pure = TRUE

Init == InitFrom(Hints)

\* the call m.Put(key, value) and the caller's bookkeeping of it
CallPut(key, value) ==
    /\ Becomes(Put(Self, key, value))
    /\ last' = [op |-> "Put", key |-> key, value |-> value,
                found |-> Get(Self, key).ok,
                prevPut |-> (last.op = "Put" /\ last.key = key),
                rehashed |-> PutRehashes(Self, key)]
    /\ ref' = RefPut(ref, key, value)
    /\ used' = IF key >= used THEN key + 1 ELSE used
    /\ pure' = (pure /\ key >= used)
    /\ UNCHANGED size

\* the call m.Delete(key) and the caller's bookkeeping of it
CallDelete(key) ==
    /\ Becomes(Delete(Self, key))
    /\ last' = [op |-> "Delete", key |-> key, value |-> 0,
                found |-> Get(Self, key).ok,
                prevPut |-> (last.op = "Put" /\ last.key = key),
                rehashed |-> FALSE]
    /\ ref' = RefDelete(ref, key)
    /\ pure' = FALSE
    /\ UNCHANGED << size, used >>

\* the call m.Clear() and the caller's bookkeeping of it
CallClear ==
    /\ Becomes(Clear(Self))
    /\ last' = [op |-> "Clear", key |-> 0, value |-> 0, found |-> FALSE,
                prevPut |-> FALSE, rehashed |-> FALSE]
    /\ ref' = NoRef
    /\ pure' = FALSE
    /\ UNCHANGED << size, used >>

\* the keys of the calls after the load phase: the oldest key, the newest
\* key, and the first key not put yet
OpKeys == {0, used - 1, used} \cap Keys

\* load phase: the next key, with the value equal to the key
Load ==
    /\ ~hung
    /\ nops = 0
    /\ used < NKeys
    /\ CallPut(used, used)
    /\ UNCHANGED nops

PutOp ==
    /\ ~hung
    /\ nops < MaxOps
    /\ \E key \in OpKeys, value \in Values : CallPut(key, value)
    /\ nops' = nops + 1

DeleteOp ==
    /\ ~hung
    /\ nops < MaxOps
    /\ \E key \in OpKeys : CallDelete(key)
    /\ nops' = nops + 1

ClearOp ==
    /\ ~hung
    /\ nops < MaxOps
    /\ CallClear
    /\ nops' = nops + 1

Next == Load \/ PutOp \/ DeleteOp \/ ClearOp

Spec == Init /\ [][Next]_vars

(***************************************************************************)
(* SpecHint: New with a size hint of 0 .. MaxSize, then Puts of keys never *)
(* put before and nothing else.                                            *)
(***************************************************************************)
InitHint == InitFrom(Sizes)

NextHint == Load

SpecHint == InitHint /\ [][NextHint]_vars

(***************************************************************************)
(* SpecChurn: the load phase, then a long run of calls that delete and put *)
(* back the oldest key (with the value equal to the key), and Clear.  Each *)
(* Delete of a key in a group without an EMPTY byte leaves a tombstone, so *)
(* that rehash comes to run with many tombstones.                          *)
(***************************************************************************)
ChurnKeys == {0} \cap Keys

ChurnPut ==
    /\ ~hung
    /\ nops < MaxChurn
    /\ \E key \in ChurnKeys : CallPut(key, key)
    /\ nops' = nops + 1

ChurnDelete ==
    /\ ~hung
    /\ nops < MaxChurn
    /\ \E key \in ChurnKeys : CallDelete(key)
    /\ nops' = nops + 1

ChurnClear ==
    /\ ~hung
    /\ nops < MaxChurn
    /\ CallClear
    /\ nops' = nops + 1

NextChurn == Load \/ ChurnPut \/ ChurnDelete \/ ChurnClear

SpecChurn == Init /\ [][NextChurn]_vars

(***************************************************************************)
(* The specification SpecGroup: one group on its own.  Its control word    *)
(* starts all EMPTY as New leaves it, control.set then stores bytes in it, *)
(* and match and the mask helpers are applied to the word that results.    *)
(* The fields of the map other than grps play no part.                     *)
(***************************************************************************)
\* the tags h2 can give that are stored in the control word
Tags == (0 .. MaxTag) \cup {127}

\* the tags looked up: those stored and two that are never stored
LookupTags == Tags \cup {MaxTag + 1, 126}

\* the values of a control byte
ControlBytes == {kEmpty, kDeleted, kSentinel} \cup Tags

InitGroup ==
    /\ grps = << EmptyGroup >>
    /\ len = 0
    /\ cap = grpload
    /\ tombstones = 0
    /\ ngroups = 1
    /\ seed = 0
    /\ hung = FALSE
    /\ size = 1
    /\ used = 0
    /\ nops = 0
    /\ last = [op |-> "New"]
    /\ ref = NoRef
    /\ pure = TRUE

\* group.cntrl.set(i, value), for a value that changes the byte
SetOp ==
    /\ nops < MaxSets
    /\ \E i \in Lanes, value \in ControlBytes :
          /\ grps[1].cntrl[i + 1] # value
          /\ grps' = << [grps[1] EXCEPT !.cntrl = set(@, i, value)] >>
    /\ nops' = nops + 1
    /\ last' = [op |-> "set"]
    /\ UNCHANGED << len, cap, tombstones, ngroups, seed, hung, size, used,
                    ref, pure >>

\* group.match(tag) for every tag looked up, and the mask helpers
ScanOp ==
    /\ last.op # "scan"
    /\ last' = [op |-> "scan",
                match |-> [tag \in LookupTags |-> match(grps[1], tag)],
                empty |-> maskEmpty(grps[1]),
                full |-> maskFull(grps[1]),
                nonFull |-> maskNonFull(grps[1]),
                emptyOrDeleted |-> maskEmptyOrDeleted(grps[1])]
    /\ UNCHANGED << grps, len, cap, tombstones, ngroups, seed, hung, size,
                    used, nops, ref, pure >>

NextGroup == SetOp \/ ScanOp

SpecGroup == InitGroup /\ [][NextGroup]_vars


(***************************************************************************)
(* The results of Get.                                                     *)
(***************************************************************************)
Found(value) == [value |-> value, ok |-> TRUE, returns |-> TRUE]

Absent == [value |-> 0, ok |-> FALSE, returns |-> TRUE]

\* C1: after Put calls with pairwise distinct keys only (no Delete, no
\* Clear), rehashes included, Get(k) returns (v, true) for every pair put.
C1_PutThenGetAll ==
    pure => \A k \in DOMAIN ref : Get(Self, k) = Found(ref[k])

\* the state right after a Put that called rehash, after Puts of distinct
\* keys only
C1_Witness ==
    /\ pure
    /\ used >= 8
    /\ last.rehashed
    /\ \A k \in DOMAIN ref : Get(Self, k) = Found(ref[k])

\* C2: right after Put(k, v) returns, Get(k) returns (v, true).
C2_PutThenGet ==
    last.op = "Put" => Get(Self, last.key) = Found(last.value)

\* C3: after Put(k, v1) followed by Put(k, v2), Get(k) returns (v2, true),
\* and the second Put changes neither Len() nor len nor any control byte.
C3_Overwrite ==
    [][ (last.op = "Put" /\ last'.op = "Put" /\ last'.key = last.key)
        => /\ Get(Self1, last'.key) = Found(last'.value)
           /\ MapLen(Self1) = MapLen(Self)
           /\ len' = len
           /\ ngroups' = ngroups
           /\ \A g \in 1..ngroups : grps'[g].cntrl = grps[g].cntrl ]_vars

\* the state after the second of two Puts of one key, with a new value,
\* in a map that holds a tombstone
C3_Witness ==
    /\ last.op = "Put"
    /\ last.prevPut
    /\ last.value # last.key
    /\ tombstones > 0
    /\ Get(Self, last.key) = Found(last.value)

\* C4: after Put(k, v) followed by Delete(k), Get(k) returns (zero, false)
\* and Len() is one less than right after the Put.
C4_PutDeleteGet ==
    [][ (last.op = "Put" /\ last'.op = "Delete" /\ last'.key = last.key)
        => /\ Get(Self1, last'.key) = Absent
           /\ MapLen(Self1) = MapLen(Self) - 1 ]_vars

\* C5: Len() equals the number of distinct keys resident, the size of the
\* reference key set.
C5_LenCountsKeys ==
    MapLen(Self) = Cardinality(DOMAIN ref)

\* C6: whenever rehash runs, the (value, found) result of Get for every key
\* and Len() are the same right after it as right before it was invoked
\* (before is the map at the call of rehash).
C6_RehashPreserves ==
    [][ (last'.op = "Put" /\ last'.rehashed)
        => LET before == PutSlot(Self, last'.key, last'.value)
           IN  /\ \A k \in Keys :
                     /\ Get(Self1, k).value = Get(before, k).value
                     /\ Get(Self1, k).ok = Get(before, k).ok
               /\ MapLen(Self1) = MapLen(before) ]_vars

\* C7: All() yields each resident key exactly once, with the value Get
\* returns for it, and no pair for a key that is not resident.
C7_AllOnce ==
    LET a == All(Self)
    IN  /\ \A i, j \in 1..Len(a) : a[i].key = a[j].key => i = j
        /\ \A i \in 1..Len(a) : Get(Self, a[i].key) = Found(a[i].value)
        /\ \A k \in Keys : Get(Self, k).ok => \E i \in 1..Len(a) : a[i].key = k

\* C8: after Clear(), Len() = 0 and Get(k) returns (zero, false) for every k.
C8_Clear ==
    last.op = "Clear"
        => /\ MapLen(Self) = 0
           /\ \A k \in Keys : Get(Self, k) = Absent

\* the state after a Clear, the second call made on a map loaded with nine
\* keys or more (two groups or more)
C8_Witness ==
    /\ last.op = "Clear"
    /\ used >= 9
    /\ nops = 2
    /\ MapLen(Self) = 0

\* C9: Delete(k) of a key Get does not find changes no field of the map.
C9_DeleteAbsent ==
    [][ (last'.op = "Delete" /\ ~Get(Self, last'.key).ok)
        => UNCHANGED fields ]_vars

\* the state after a Delete of a key that was not resident, whose probe
\* went through a full group holding a tombstone
C9_Witness ==
    /\ last.op = "Delete"
    /\ ~last.found
    /\ tombstones > 0
    /\ find(Self, last.key).visited >= 2

\* C10: every Get, Put and Delete returns: no probe loop comes back to the
\* group it started from.
C10_ProbesReturn ==
    /\ ~hung
    /\ \A k \in Keys :
          LET f == find(Self, k)
              p == PutFind(Self, k)
          IN  /\ f.kind # "loop" /\ f.visited <= ngroups
              /\ p.kind # "loop" /\ p.visited <= ngroups

\* all keys share home group 0, which is full and holds a tombstone; a
\* probe for a key that is not resident goes on to the next group
C10_Witness ==
    /\ seed % 2 = 1
    /\ tombstones > 0
    /\ maskEmpty(grps[1]) = ZeroWord
    /\ \E k \in Keys : find(Self, k).kind = "miss" /\ find(Self, k).visited >= 2


\* C11: right after any Put returns, len is at most cap (a Put whose
\* insertion made len > cap has called rehash), and so Len() <= Cap().
C11_PutWithinCap ==
    last.op = "Put" => (len <= cap /\ MapLen(Self) <= MapCap(Self))

\* the state right after a Put that called rehash, in a map that went
\* through a Delete or a Clear before
C11_Witness ==
    /\ last.op = "Put"
    /\ last.rehashed
    /\ ~pure
    /\ nops >= 2
    /\ len <= cap

\* C12: ngroups >= 1 and cap = 7 * ngroups = 7 * (number of groups
\* allocated) in every state, after rehash and Clear as well; right after
\* New(size), Cap() = 7 * groupsnum(size).
C12_CapSevenPerGroup ==
    /\ ngroups >= 1
    /\ Len(grps) = ngroups
    /\ cap = 7 * ngroups
    /\ MapCap(Self) % 7 = 0
    /\ last.op = "New" => MapCap(Self) = 7 * groupsnum(size)

\* the state after a Clear of a map that has grown by a rehash
C12_Witness ==
    /\ last.op = "Clear"
    /\ ngroups > groupsnum(size)
    /\ cap = 7 * ngroups

\* C13: Cap() never decreases: Delete, Clear and a Put that does not call
\* rehash leave cap and ngroups as they are, and rehash makes neither
\* smaller.
C13_CapNeverShrinks ==
    [][ /\ cap' >= cap
        /\ ngroups' >= ngroups
        /\ ~(last'.op = "Put" /\ last'.rehashed)
              => (cap' = cap /\ ngroups' = ngroups) ]_vars

\* the state after a Clear, the third call or a later one after the load
\* phase, of a map that a rehash made larger than New made it
C13_Witness ==
    /\ last.op = "Clear"
    /\ nops >= 3
    /\ cap > 7 * groupsnum(size)


\* C14: probe-chain invariant: for every FULL slot, holding key k in group
\* r, no group on the wrapping walk from the home group of k up to but
\* excluding r holds an EMPTY control byte.
C14_ProbeChain ==
    \A r \in 0 .. (ngroups - 1), i \in Lanes :
        isFull(grps[r + 1].cntrl[i + 1])
            => \A g \in walk(Self, home(Self, grps[r + 1].slts[i + 1].key), r) :
                   ~hasEmpty(grps[g + 1])

\* the state after a Put that took a free slot, in a map that holds a key
\* outside its home group and a tombstone
C14_Witness ==
    /\ last.op = "Put"
    /\ ~last.found
    /\ nops >= 3
    /\ tombstones > 0
    /\ \E r \in 0 .. (ngroups - 1), i \in Lanes :
          /\ isFull(grps[r + 1].cntrl[i + 1])
          /\ home(Self, grps[r + 1].slts[i + 1].key) # r


C16_LenCountsFull ==
    /\ MapLen(Self) = fullCount(Self)
    /\ MapLen(Self) >= 0

\* the state after a Delete that left a tombstone, in a map in which a Put
\* has reused the slot of an earlier tombstone
C16_Witness ==
    /\ last.op = "Delete"
    /\ last.found
    /\ deletedCount(Self) > 0
    /\ tombstones > deletedCount(Self)
    /\ MapLen(Self) = fullCount(Self)

\* C17: in every state the tombstones field is the number of control bytes
\* that are DELETED over all groups.
C17_TombstonesCountDeleted ==
    tombstones = deletedCount(Self)


\* C18: a rehash that fires with tombstones >= cap / 2 keeps the capacity:
\* Cap() and ngroups after it are what they were before it; the capacity
\* grows only when tombstones < cap / 2 (atCall is the map at the call of
\* rehash).
C18_SameSizeRehash ==
    [][ (last'.op = "Put" /\ last'.rehashed)
        => LET atCall == PutSlot(Self, last'.key, last'.value)
           IN  /\ atCall.tombstones >= atCall.cap \div 2
                     => (cap' = atCall.cap /\ ngroups' = atCall.ngroups)
               /\ cap' > atCall.cap
                     => atCall.tombstones < atCall.cap \div 2 ]_vars


\* C19: rehash never re-enters itself: none of the Puts of its re-insertion
\* loop calls rehash, len stays within the new cap, the groups stay those
\* rehash allocated, and the map the Put returns with is the one the loop
\* ends with; for newsize = cap and for newsize = 2 * cap alike (old are
\* the slots the loop re-inserts, trail[n] the map before the Put of
\* old[n]).
C19_NoNestedRehash ==
    [][ (last'.op = "Put" /\ last'.rehashed)
        => \A atCall \in {PutSlot(Self, last'.key, last'.value)} :
           \A old \in {allSlots(atCall.grps, 1)}, trail \in {rehashTrail(atCall)} :
               /\ Len(trail) = Len(old) + 1
               /\ \A n \in 1 .. Len(old) :
                     /\ ~PutRehashes(trail[n], old[n].key)
                     /\ trail[n + 1].len <= trail[n + 1].cap
                     /\ trail[n + 1].ngroups = trail[1].ngroups
                     /\ trail[n + 1].cap = trail[1].cap
               /\ Self1 = trail[Len(trail)] ]_vars

\* the state right after a Put that called rehash with tombstones >= cap / 2
\* (newsize = cap): the first rehash of the map, which left it with one
\* group more than New gave it (a rehash with newsize = 2 * cap leaves
\* 2 * ngroups + 1 groups)
C19_Witness ==
    /\ last.op = "Put"
    /\ last.rehashed
    /\ nops > 0
    /\ ngroups = groupsnum(size) + 1
    /\ len <= cap


\* C20: after New(n) and Puts of n pairwise distinct keys and nothing else
\* (or of fewer), no rehash has run: Cap() and ngroups are what New(n) made
\* them.
C20_HintHeadroom ==
    (pure /\ used <= size)
        => /\ ngroups = groupsnum(size)
           /\ MapCap(Self) = grpload * groupsnum(size)
           /\ ~last.rehashed

\* the state after New(n) and n Puts of distinct keys, for an n that takes
\* more than one group
C20_Witness ==
    /\ pure
    /\ size >= grpssz
    /\ used = size
    /\ last.op = "Put"
    /\ MapLen(Self) = size
    /\ ngroups = groupsnum(size)


\* C21: for every size hint n >= 0, groupsnum(n) is (n + 8) / 7 rounded up,
\* with 10 in the place of n when n = 0, and New(n) allocates exactly that
\* many groups.
C21_GroupsnumCeiling ==
    LET n == IF size = 0 THEN 10 ELSE size
        ceiling == ((n + grpload + 1) + (grpload - 1)) \div grpload
    IN  /\ groupsnum(size) = ceiling
        /\ last.op = "New" => (ngroups = ceiling /\ Len(grps) = ceiling)


\* C22: for every control word of EMPTY, DELETED, SENTINEL and FULL bytes
\* and every tag, match(tag) has the marker of lane i set if and only if
\* control byte i equals the tag.
C22_MatchExact ==
    last.op = "scan"
        => \A tag \in LookupTags : \A i \in Lanes :
              (last.match[tag][i + 1] = kEmpty)
                  <=> (grps[1].cntrl[i + 1] = tag)

\* C22, as the code has it: match(tag) has the marker of lane i set if and
\* only if control byte i equals the tag, or equals the tag with its lowest
\* bit flipped while the marker of lane i - 1 is set.  So every equal lane
\* is reported, the first lane reported is an equal one, a lane that is not
\* FULL is never reported, and the mask holds marker bits only.
C22_MatchUpToBorrow ==
    last.op = "scan"
        => \A tag \in LookupTags :
              \A mask \in {last.match[tag]} : \A lanes \in {lanesOf(mask)} :
                 /\ \A i \in Lanes : mask[i + 1] \in {0, kEmpty}
                 /\ lanes = {i \in Lanes : mask[i + 1] = kEmpty}
                 /\ \A i \in Lanes :
                       i \in lanes
                           <=> \/ grps[1].cntrl[i + 1] = tag
                               \/ /\ grps[1].cntrl[i + 1] = Xor8(tag, 1)
                                  /\ i > 0
                                  /\ (i - 1) \in lanes
                 /\ mask # ZeroWord => grps[1].cntrl[first(mask) + 1] = tag
                 /\ \A i \in lanes : isFull(grps[1].cntrl[i + 1])

\* match has reported a lane whose control byte is not the tag: the byte is
\* the tag with its lowest bit flipped and sits right above an equal lane
C22_Witness ==
    /\ last.op = "scan"
    /\ \E tag \in LookupTags : \E i \in Lanes :
          /\ i > 0
          /\ i \in lanesOf(last.match[tag])
          /\ grps[1].cntrl[i + 1] # tag
          /\ grps[1].cntrl[i] = tag


\* C23: for every control word of EMPTY, DELETED, SENTINEL and FULL bytes
\* the mask helpers agree with the classification of each lane's own byte:
\* maskEmpty marks exactly the EMPTY lanes, maskEmptyOrDeleted exactly the
\* EMPTY and DELETED lanes (never SENTINEL, never FULL), maskFull exactly
\* the FULL lanes; no bit outside the markers is set, so the bits shifted in
\* from the byte below never change a lane's result.
C23_MasksByLane ==
    last.op = "scan"
        => /\ \A i \in Lanes : \A byte \in {grps[1].cntrl[i + 1]} :
                 /\ last.empty[i + 1]
                       = (IF byte = kEmpty THEN kEmpty ELSE 0)
                 /\ last.emptyOrDeleted[i + 1]
                       = (IF byte \in {kEmpty, kDeleted} THEN kEmpty ELSE 0)
                 /\ last.full[i + 1] = (IF isFull(byte) THEN kEmpty ELSE 0)
           /\ lanesOf(last.empty)
                 = {i \in Lanes : grps[1].cntrl[i + 1] = kEmpty}
           /\ lanesOf(last.emptyOrDeleted)
                 = {i \in Lanes : grps[1].cntrl[i + 1] \in {kEmpty, kDeleted}}
           /\ lanesOf(last.full)
                 = {i \in Lanes : isFull(grps[1].cntrl[i + 1])}

\* the helpers applied to a word that holds all four kinds of byte, with an
\* EMPTY lane right above a DELETED or SENTINEL one (whose bits the shift
\* moves into it) and a SENTINEL lane right above an EMPTY or FULL one
C23_Witness ==
    /\ last.op = "scan"
    /\ \E i, j, k \in Lanes :
          /\ grps[1].cntrl[i + 1] = kDeleted
          /\ grps[1].cntrl[j + 1] = kSentinel
          /\ isFull(grps[1].cntrl[k + 1])
    /\ \E i \in Lanes \ {0} :
          /\ grps[1].cntrl[i + 1] = kEmpty
          /\ grps[1].cntrl[i] \in {kDeleted, kSentinel}
    /\ \E i \in Lanes \ {0} :
          /\ grps[1].cntrl[i + 1] = kSentinel
          /\ grps[1].cntrl[i] \in {kEmpty} \cup Tags
    /\ lanesOf(last.empty) # {}
    /\ lanesOf(last.emptyOrDeleted) # lanesOf(last.empty)
    /\ lanesOf(last.full) # {}

=============================================================================
